---- MODULE Spec2Model ----
(***************************************************************************)
(* Gamification engine of the learning platform backend: PointsService,    *)
(* BadgeService, LeaderboardService (services/core_services.py), the       *)
(* streak transition of User (models.py) and the static rule tables        *)
(* (utils/constants.py).                                                   *)
(*                                                                         *)
(* The database is modelled twice: `session` is what the code sees through *)
(* db.session (committed rows plus the pending changes of the open unit of *)
(* work) and `committed` is what db.session.commit() has made durable.     *)
(* A service call is one action.  A call that raises leaves the session    *)
(* dirty; the caller's `except: db.session.rollback()` is the next step.   *)
(***************************************************************************)
EXTENDS Integers, Sequences, FiniteSets, TLC

(* ------------------------------ bounds -------------------------------- *)
NumUsers == 2
MaxCalls == 2
MaxDay == 2
\* the interpreter's recursion limit, in frames of award_points
RecursionLimit == 3
\* rows of user_progress at 100 that one (user, module) pair may have
MaxRows == 2

Users == 1..NumUsers
NoDate == -1
NoRank == 0

(* -------------------- utils/constants.py ------------------------------ *)
POINTS_CONFIG ==
    ("complete_module" :> 50) @@ ("complete_quiz" :> 30) @@ ("pass_quiz" :> 50) @@
    ("start_learning_path" :> 10) @@ ("create_resource" :> 25) @@
    ("create_learning_path" :> 100) @@ ("rate_resource" :> 5) @@
    ("create_post" :> 15) @@ ("create_comment" :> 10) @@
    ("receive_rating_5_star" :> 20) @@ ("resource_used_100_times" :> 100) @@
    ("daily_login" :> 5) @@ ("complete_challenge" :> 200) @@
    ("participate_event" :> 50) @@ ("win_leaderboard_weekly" :> 300)

XP_CONFIG ==
    ("complete_module" :> 100) @@ ("pass_quiz" :> 150) @@ ("create_resource" :> 50) @@
    ("create_learning_path" :> 200) @@ ("complete_challenge" :> 500) @@
    ("daily_streak_7_days" :> 200) @@ ("daily_streak_30_days" :> 500)

BADGE_RULES ==
    ("first_module" :> "First Module Completed") @@
    ("first_quiz" :> "First Quiz Completed") @@
    ("first_learning_path" :> "First Learning Path Created") @@
    ("first_login" :> "Welcome Aboard!") @@
    ("quiz_master" :> "Quiz Master") @@
    ("module_explorer" :> "Module Explorer") @@
    ("streak_30_days" :> "Monthly Master") @@
    ("path_completer" :> "Pathfinder") @@
    ("subject_master" :> "Subject Master")

BadgeKeys == DOMAIN BADGE_RULES

\* XP_CONFIG.get(action, 0)
XP_get(action) == IF action \in DOMAIN XP_CONFIG THEN XP_CONFIG[action] ELSE 0

\* trigger_map of check_badges
trigger_map ==
    ("complete_module" :> "first_module") @@ ("complete_quiz" :> "first_quiz") @@
    ("create_learning_path" :> "first_learning_path") @@ ("daily_login" :> "first_login")

MODULE_EXPLORER_TARGET == 5
QUIZ_MASTER_TARGET == 10
STREAK_BADGE_DAYS == 30
STREAK_7 == 7
STREAK_30 == 30

(* ---------------- learning content (rows of module) ------------------- *)
\* Module.learning_path_id: path 1 has the single module 1, path 2 has the
\* modules 2..12, path 3 has the modules 13 and 14, path 4 has no module.
Modules == 1..14
Paths == 1..4
learning_path_id ==
    [m \in Modules |-> IF m = 1 THEN 1 ELSE IF m <= 12 THEN 2 ELSE 3]

(* ------------------------- unit of work ------------------------------- *)
\* A world is the pair of database views a call runs against, the pending
\* exception, the award_badge calls issued so far by the running top-level
\* call, the badge list the last completed award_points returned, the number
\* of award_points frames on the stack, the deepest frame that has issued an
\* award_badge call, and the value a read returned.
World(s, c) ==
    [s |-> s, c |-> c, exc |-> "none", attempted |-> <<>>, ret |-> <<>>,
     depth |-> 0, nesting |-> 0, result |-> <<>>]

\* sequencing of statements: the value of e, computed once, is handed to K
Bind(e, K(_)) == CHOOSE y \in {K(x) : x \in {e}} : TRUE

\* db.session.commit()
commit(w) == [w EXCEPT !.c = w.s]

\* db.session.rollback()
rollback(w) == [w EXCEPT !.s = w.c]

\* raise ValueError(...)
raise(w) == [w EXCEPT !.exc = "ValueError"]

(* ------------------------- models.py ---------------------------------- *)
\* User.update_streak that counts every call, also a second one on the day
update_streak_no_same_day_return(w, u, day) ==
    LET sd == IF w.s.last_streak_date[u] = day - 1
              THEN w.s.streak_days[u] + 1
              ELSE 1
    IN commit([w EXCEPT !.s.streak_days[u] = sd, !.s.last_streak_date[u] = day])

\* User.update_streak that never resets the streak after a gap
update_streak_no_reset(w, u, day) ==
    IF w.s.last_streak_date[u] = day THEN w
    ELSE commit([w EXCEPT !.s.streak_days[u] = @ + 1,
                          !.s.last_streak_date[u] = day])

\* User.update_streak
update_streak(w, u, day) ==
    IF w.s.last_streak_date[u] = day THEN w
    ELSE LET sd == IF w.s.last_streak_date[u] = day - 1
                   THEN w.s.streak_days[u] + 1
                   ELSE 1
         IN commit([w EXCEPT !.s.streak_days[u] = sd,
                             !.s.last_streak_date[u] = day])

(* --------------------- LeaderboardService ----------------------------- *)
\* the recompute with order_by(Leaderboard.total_points) (ascending)
RankOf_ascending(lb, tie, u) ==
    1 + Cardinality({v \in Users :
            /\ lb[v].present
            /\ \/ lb[v].total_points < lb[u].total_points
               \/ /\ lb[v].total_points = lb[u].total_points
                  /\ tie[v] < tie[u]})

\* Leaderboard.query.order_by(Leaderboard.total_points.desc()).all() followed
\* by enumerate(entries, start=1): the 1-based position of u's entry.  `tie`
\* is the order in which the storage engine returns rows of equal
\* total_points (SQL leaves it open).
RankOf(lb, tie, u) ==
    1 + Cardinality({v \in Users :
            /\ lb[v].present
            /\ \/ lb[v].total_points > lb[u].total_points
               \/ /\ lb[v].total_points = lb[u].total_points
                  /\ tie[v] < tie[u]})

update_all_ranks(w, tie) ==
    commit([w EXCEPT !.s.leaderboard =
              [u \in Users |->
                 IF w.s.leaderboard[u].present
                 THEN [w.s.leaderboard[u] EXCEPT
                         !.rank = RankOf(w.s.leaderboard, tie, u)]
                 ELSE w.s.leaderboard[u]]])

\* update_user_rank that only creates the entry and never refreshes it
update_user_rank_create_only(w, u, tie) ==
    IF ~w.s.leaderboard[u].present
    THEN Bind([w EXCEPT !.s.leaderboard[u] =
                 [present |-> TRUE, total_points |-> w.s.points[u], rank |-> NoRank]],
              LAMBDA w1 : update_all_ranks(w1, tie))
    ELSE update_all_ranks(w, tie)

\* update_user_rank that refreshes an entry but never creates one
update_user_rank_no_create(w, u, tie) ==
    Bind(IF ~w.s.leaderboard[u].present
         THEN w
         ELSE [w EXCEPT !.s.leaderboard[u].total_points = w.s.points[u]],
         LAMBDA w1 : update_all_ranks(w1, tie))

\* Leaderboard.user_id is unique: the table holds at most one row per user,
\* which is why leaderboard is a function of the user
update_user_rank(w, u, tie) ==
    Bind(IF ~w.s.leaderboard[u].present
         THEN [w EXCEPT !.s.leaderboard[u] =
                 [present |-> TRUE, total_points |-> w.s.points[u], rank |-> NoRank]]
         ELSE [w EXCEPT !.s.leaderboard[u].total_points = w.s.points[u]],
         LAMBDA w1 : update_all_ranks(w1, tie))

\* LeaderboardService.get_user_rank: `entry.rank if entry else None`, None
\* written NoRank
get_user_rank(w, user_id) ==
    [w EXCEPT !.result =
       IF user_id \in Users /\ w.s.leaderboard[user_id].present
       THEN w.s.leaderboard[user_id].rank
       ELSE NoRank]

\* Leaderboard.update_leaderboard (models.py), the same recompute
update_leaderboard(w, tie) == update_all_ranks(w, tie)

(* ------------------------- BadgeService ------------------------------- *)
has_badge(s, u, badge_key) ==
    badge_key \in s.badge /\ s.user_badge[u][badge_key] > 0

\* the rows of user_progress of user u at completion_percent = 100 over a
\* set of modules, as pairs <<module, position>> (user_progress[u][m] lists
\* the completion_percent of the rows of the pair (u, m) in id order; the
\* table has no unique constraint on the pair)
FullRows(s, u, mods) ==
    UNION {{<<m, i>> : i \in {j \in 1..Len(s.user_progress[u][m]) :
                                 s.user_progress[u][m][j] = 100}} : m \in mods}

\* UserProgress.query.filter_by(user_id=..., completion_percent=100).count()
completed_count(s, u) == Cardinality(FullRows(s, u, Modules))

\* BadgeService._get_completed_learning_paths: the join of learning_path,
\* module and the user's rows at 100 is grouped by path; a group (it has at
\* least one joined row) is counted when count(module.id), the number of its
\* joined rows, equals the number of modules of the path
get_completed_learning_paths(s, u) ==
    Cardinality({p \in Paths :
        LET mods == {m \in Modules : learning_path_id[m] = p}
        IN /\ FullRows(s, u, mods) # {}
           /\ Cardinality(FullRows(s, u, mods)) = Cardinality(mods)})

has_completed_full_path(s, u) == get_completed_learning_paths(s, u) > 0

\* LearningPath.query.filter_by(creator_id=user_id).count(): the paths of the
\* model were created by an account that is not among Users
created_paths(user_id) == 0

\* get_user_badge_progress that reports a threshold badge as completed only
\* beyond its target
get_user_badge_progress_beyond_target(w, user_id) ==
    IF user_id \notin Users THEN [w EXCEPT !.exc = "AttributeError"]
    ELSE Bind(completed_count(w.s, user_id),
         LAMBDA n :
              [w EXCEPT !.result =
                 [first_module |-> n >= 1,
                  module_explorer |-> [current |-> n, target |-> 5, completed |-> n > 5],
                  first_quiz |-> n >= 1,
                  quiz_master |-> [current |-> n, target |-> 10, completed |-> n > 10],
                  first_learning_path |-> created_paths(user_id) >= 1,
                  path_completer |-> get_completed_learning_paths(w.s, user_id) >= 1,
                  subject_master |-> has_completed_full_path(w.s, user_id),
                  streak_30_days |-> w.s.streak_days[user_id] >= 30]])

\* BadgeService.get_user_badge_progress.  For an id that has no user row
\* User.query.get returns None, and _get_completed_learning_paths(None)
\* reads user.id.
get_user_badge_progress(w, user_id) ==
    IF user_id \notin Users THEN [w EXCEPT !.exc = "AttributeError"]
    ELSE Bind(completed_count(w.s, user_id),
         LAMBDA n :
              [w EXCEPT !.result =
                 [first_module |-> n >= 1,
                  module_explorer |-> [current |-> n, target |-> 5, completed |-> n >= 5],
                  first_quiz |-> n >= 1,
                  quiz_master |-> [current |-> n, target |-> 10, completed |-> n >= 10],
                  first_learning_path |-> created_paths(user_id) >= 1,
                  path_completer |-> get_completed_learning_paths(w.s, user_id) >= 1,
                  subject_master |-> has_completed_full_path(w.s, user_id),
                  streak_30_days |-> w.s.streak_days[user_id] >= 30]])

RECURSIVE award_points(_, _, _, _, _)
RECURSIVE award_badge(_, _, _, _)

\* one rule of check_badges / _check_milestone_badges on r = [w, badges]:
\* `if qualifies: award_badge(user, key); badges.append(key)`
Rule(r, u, badge_key, qualifies, tie) ==
    IF r.w.exc # "none" \/ ~qualifies THEN r
    ELSE Bind(award_badge(r.w, u, badge_key, tie),
              LAMBDA w1 : [w |-> w1,
                           badges |-> IF w1.exc = "none"
                                      THEN Append(r.badges, badge_key)
                                      ELSE r.badges])

check_milestone_badges(w, u, tie) ==
    Bind(Rule([w |-> w, badges |-> <<>>], u, "module_explorer",
              /\ completed_count(w.s, u) >= MODULE_EXPLORER_TARGET
              /\ ~has_badge(w.s, u, "module_explorer"), tie),
    LAMBDA r1 :
    Bind(Rule(r1, u, "streak_30_days",
              /\ r1.w.s.streak_days[u] >= STREAK_BADGE_DAYS
              /\ ~has_badge(r1.w.s, u, "streak_30_days"), tie),
    LAMBDA r2 :
    Bind(Rule(r2, u, "path_completer",
              /\ get_completed_learning_paths(r2.w.s, u) >= 1
              /\ ~has_badge(r2.w.s, u, "path_completer"), tie),
    LAMBDA r3 :
    Bind(Rule(r3, u, "quiz_master",
              /\ completed_count(r3.w.s, u) >= QUIZ_MASTER_TARGET
              /\ ~has_badge(r3.w.s, u, "quiz_master"), tie),
    LAMBDA r4 :
         Rule(r4, u, "subject_master",
              has_completed_full_path(r4.w.s, u), tie)))))

check_badges(w, u, action, tie) ==
    Bind(IF action \in DOMAIN trigger_map
         THEN Rule([w |-> w, badges |-> <<>>], u, trigger_map[action],
                   ~has_badge(w.s, u, trigger_map[action]), tie)
         ELSE [w |-> w, badges |-> <<>>],
    LAMBDA r1 :
         IF r1.w.exc # "none" THEN r1
         ELSE Bind(check_milestone_badges(r1.w, u, tie),
                   LAMBDA m : [w |-> m.w, badges |-> r1.badges \o m.badges]))

\* award_badge that does not look the key up in BADGE_RULES
award_badge_no_rule_check(w, u, badge_key, tie) ==
    Bind([w EXCEPT !.attempted = Append(@, badge_key),
                   !.nesting = IF w.depth > @ THEN w.depth ELSE @,
                   !.s.badge = @ \cup {badge_key}],
         LAMBDA w1 : award_points(w1, u, "earn_badge", <<"Badge", badge_key>>, tie))

award_badge(w, u, badge_key, tie) ==
    IF badge_key \notin DOMAIN BADGE_RULES
    THEN raise([w EXCEPT !.attempted = Append(@, badge_key),
                         !.nesting = IF w.depth > @ THEN w.depth ELSE @])
    ELSE Bind([w EXCEPT !.attempted = Append(@, badge_key),
                        !.nesting = IF w.depth > @ THEN w.depth ELSE @,
                        !.s.badge = @ \cup {badge_key},
                        !.s.user_badge[u][badge_key] = @ + 1],
              LAMBDA w1 : award_points(w1, u, "earn_badge", <<"Badge", badge_key>>, tie))

(* ------------------------- PointsService ------------------------------ *)
\* the PointsLog row of award_points
PointsLog(u, points, action, metadata) ==
    [user_id |-> u, points_change |-> points,
     reason |-> IF metadata # <<>> THEN <<action>> \o metadata ELSE <<action>>]

\* the tail of award_points: badge check, leaderboard refresh, commit, return
Finish(w1, u, action, tie) ==
    Bind(check_badges(w1, u, action, tie),
    LAMBDA r :
         IF r.w.exc # "none" THEN r.w
         ELSE Bind(update_user_rank(r.w, u, tie),
                   LAMBDA w2 : [commit(w2) EXCEPT !.ret = r.badges,
                                                  !.depth = @ - 1]))

\* a call of award_points beyond the recursion limit
RecursionError(w) == [w EXCEPT !.exc = "RecursionError"]

\* award_points that forgets db.session.add(points_log)
award_points_no_log(w, u, action, metadata, tie) ==
    IF w.depth >= RecursionLimit THEN RecursionError(w)
    ELSE IF action \notin DOMAIN POINTS_CONFIG THEN raise(w)
    ELSE Bind([w EXCEPT !.depth = @ + 1,
                        !.s.points[u] = @ + POINTS_CONFIG[action],
                        !.s.xp[u] = IF XP_get(action) > 0 THEN @ + XP_get(action) ELSE @],
              LAMBDA w1 : Finish(w1, u, action, tie))

\* award_points that reads the table with POINTS_CONFIG.get(action, 0)
award_points_get_default(w, u, action, metadata, tie) ==
    Bind(IF action \in DOMAIN POINTS_CONFIG THEN POINTS_CONFIG[action] ELSE 0,
    LAMBDA points :
    Bind([w EXCEPT !.depth = @ + 1,
                   !.s.points[u] = @ + points,
                   !.s.xp[u] = IF XP_get(action) > 0 THEN @ + XP_get(action) ELSE @,
                   !.s.points_log = Append(@, PointsLog(u, points, action, metadata))],
         LAMBDA w1 : Finish(w1, u, action, tie)))

\* award_points that commits the reward before it evaluates the badges
award_points_commit_before_badges(w, u, action, metadata, tie) ==
    IF w.depth >= RecursionLimit THEN RecursionError(w)
    ELSE IF action \notin DOMAIN POINTS_CONFIG THEN raise(w)
    ELSE Bind(commit([w EXCEPT !.depth = @ + 1,
                               !.s.points[u] = @ + POINTS_CONFIG[action],
                               !.s.xp[u] = IF XP_get(action) > 0 THEN @ + XP_get(action) ELSE @,
                               !.s.points_log = Append(@, PointsLog(u, POINTS_CONFIG[action],
                                                                    action, metadata))]),
              LAMBDA w1 : Finish(w1, u, action, tie))

\* award_points that commits the user's new totals before it adds the row
\* of the ledger
award_points_commit_user_first(w, u, action, metadata, tie) ==
    IF w.depth >= RecursionLimit THEN RecursionError(w)
    ELSE IF action \notin DOMAIN POINTS_CONFIG THEN raise(w)
    ELSE Bind(commit([w EXCEPT !.depth = @ + 1,
                               !.s.points[u] = @ + POINTS_CONFIG[action],
                               !.s.xp[u] = IF XP_get(action) > 0 THEN @ + XP_get(action) ELSE @]),
         LAMBDA w0 :
         Bind([w0 EXCEPT !.s.points_log = Append(@, PointsLog(u, POINTS_CONFIG[action],
                                                              action, metadata))],
              LAMBDA w1 : Finish(w1, u, action, tie)))

\* award_points that keeps only the newest row of the ledger
award_points_overwrite_log(w, u, action, metadata, tie) ==
    IF w.depth >= RecursionLimit THEN RecursionError(w)
    ELSE IF action \notin DOMAIN POINTS_CONFIG THEN raise(w)
    ELSE Bind([w EXCEPT !.depth = @ + 1,
                        !.s.points[u] = @ + POINTS_CONFIG[action],
                        !.s.xp[u] = IF XP_get(action) > 0 THEN @ + XP_get(action) ELSE @,
                        !.s.points_log = <<PointsLog(u, POINTS_CONFIG[action],
                                                     action, metadata)>>],
              LAMBDA w1 : Finish(w1, u, action, tie))

\* award_points that takes the configured amount off the user's points
award_points_debit(w, u, action, metadata, tie) ==
    IF w.depth >= RecursionLimit THEN RecursionError(w)
    ELSE IF action \notin DOMAIN POINTS_CONFIG THEN raise(w)
    ELSE Bind([w EXCEPT !.depth = @ + 1,
                        !.s.points[u] = @ - POINTS_CONFIG[action],
                        !.s.xp[u] = IF XP_get(action) > 0 THEN @ + XP_get(action) ELSE @,
                        !.s.points_log = Append(@, PointsLog(u, POINTS_CONFIG[action],
                                                             action, metadata))],
              LAMBDA w1 : Finish(w1, u, action, tie))

\* award_points over a points table that has an 'earn_badge' entry
award_points_earn_badge_configured(w, u, action, metadata, tie) ==
    IF w.depth >= RecursionLimit THEN RecursionError(w)
    ELSE IF action \notin DOMAIN POINTS_CONFIG \cup {"earn_badge"} THEN raise(w)
    ELSE Bind(IF action = "earn_badge" THEN 10 ELSE POINTS_CONFIG[action],
         LAMBDA points :
         Bind([w EXCEPT !.depth = @ + 1,
                        !.s.points[u] = @ + points,
                        !.s.xp[u] = IF XP_get(action) > 0 THEN @ + XP_get(action) ELSE @,
                        !.s.points_log = Append(@, PointsLog(u, points, action, metadata))],
              LAMBDA w1 : Finish(w1, u, action, tie)))

award_points(w, u, action, metadata, tie) ==
    IF w.depth >= RecursionLimit THEN RecursionError(w)
    ELSE IF action \notin DOMAIN POINTS_CONFIG THEN raise(w)
    ELSE Bind([w EXCEPT !.depth = @ + 1,
                        !.s.points[u] = @ + POINTS_CONFIG[action],
                        !.s.xp[u] = IF XP_get(action) > 0 THEN @ + XP_get(action) ELSE @,
                        !.s.points_log = Append(@, PointsLog(u, POINTS_CONFIG[action],
                                                             action, metadata))],
              LAMBDA w1 : Finish(w1, u, action, tie))

\* award_xp_only that writes a ledger row for the XP it grants
award_xp_only_logged(w, u, action) ==
    IF XP_get(action) > 0
    THEN commit([w EXCEPT !.s.xp[u] = @ + XP_get(action),
                          !.s.points_log = Append(@, PointsLog(u, 0, action, <<>>))])
    ELSE w

award_xp_only(w, u, action) ==
    IF XP_get(action) > 0
    THEN commit([w EXCEPT !.s.xp[u] = @ + XP_get(action)])
    ELSE w

award_daily_login(w, u, day, tie) ==
    Bind(update_streak(w, u, day),
    LAMBDA w1 :
    Bind(award_points(w1, u, "daily_login", <<>>, tie),
    LAMBDA w2 :
         IF w2.exc # "none" THEN w2
         ELSE IF w2.s.streak_days[u] = STREAK_7
              THEN award_xp_only(w2, u, "daily_streak_7_days")
              ELSE IF w2.s.streak_days[u] = STREAK_30
                   THEN award_xp_only(w2, u, "daily_streak_30_days")
                   ELSE w2))

(* ------------------------------ state --------------------------------- *)
\* session   : the database as seen through db.session
\* committed : the database as last committed
\* today     : date.today()
\* last      : the last call issued and its outcome
\* calls     : number of service calls issued so far
\* requests  : the requests that run concurrently, each with its own session
\* lock      : the request that holds the write lock of the database, or 0
VARIABLES session, committed, today, last, calls, requests, lock

vars == <<session, committed, today, last, calls, requests, lock>>

\* requests that may be in flight at the same time
Requests == {1, 2}

NoRequest == [pc |-> "none", user |-> 0, action |-> "", user_object |-> <<>>,
              base |-> <<>>, s |-> <<>>, exc |-> "none", overlapped |-> FALSE]

\* no request runs concurrently: the calls are issued one after the other
Sequential == requests = [r \in Requests |-> NoRequest] /\ lock = 0

\* orders in which the storage engine may return rows of equal total_points:
\* by ascending and by descending id, so that every two tied rows are
\* returned in both orders
TieOrders == {[u \in Users |-> u], [u \in Users |-> NumUsers + 1 - u]}

\* action names passed by callers: one per kind of entry of the tables
\* (direct-trigger with XP, direct-trigger without XP, plain with XP, plain
\* without XP) and one name that is in no table
ActionInputs == {"complete_module", "daily_login", "create_resource",
                 "rate_resource", "nonexistent_action"}
XpActionInputs == {"daily_streak_7_days", "rate_resource"}

\* rows a user can own when the services are called (seed.py inserts such
\* rows directly): a user who just registered, one who has logged in six
\* days in a row (the login route only moves the streak), and users with
\* badges, progress and a leaderboard entry
Profiles == <<
    [points |-> 0, xp |-> 0, streak_days |-> 0, last_streak_date |-> NoDate,
     held |-> {}, done |-> {}, ranked |-> FALSE],
    [points |-> 0, xp |-> 0, streak_days |-> 6, last_streak_date |-> 0,
     held |-> {}, done |-> {}, ranked |-> FALSE],
    [points |-> 50, xp |-> 100, streak_days |-> 6, last_streak_date |-> 0,
     held |-> {"first_login", "first_module"}, done |-> {2}, ranked |-> TRUE],
    [points |-> 250, xp |-> 300, streak_days |-> 29, last_streak_date |-> 0,
     held |-> {"first_login", "first_module", "module_explorer", "streak_30_days"},
     done |-> 2..6, ranked |-> TRUE],
    [points |-> 100, xp |-> 300, streak_days |-> 2, last_streak_date |-> 0,
     held |-> {"first_login", "first_module", "path_completer", "subject_master"},
     done |-> {1}, ranked |-> TRUE] >>

\* users are interchangeable: each user starts from a profile of its own,
\* handed out in user order (NumUsers is at most Len(Profiles))
ProfileChoices ==
    {f \in [Users -> DOMAIN Profiles] : \A u, v \in Users : u < v => f[u] < f[v]}

SeededBadges == {"first_login", "first_module", "streak_7_days"}

NoPre == [streak_days |-> 0, last_streak_date |-> NoDate]

NoCall == [op |-> "none", user |-> 0, action |-> "", module |-> 0, exc |-> "none",
           badges |-> <<>>, attempted |-> <<>>, nesting |-> 0, result |-> <<>>,
           pre |-> NoPre]

\* the record of a call: its arguments, the exception it raised, the badge
\* list it returned, the award_badge calls it made and the deepest frame of
\* award_points that made one, the value a read returned, and the streak
\* fields of the acting user before the call
Call(op, u, action, w) ==
    [op |-> op, user |-> u, action |-> action, module |-> 0, exc |-> w.exc,
     badges |-> IF w.exc = "none" THEN w.ret ELSE <<>>,
     attempted |-> w.attempted,
     nesting |-> w.nesting,
     result |-> IF w.exc = "none" THEN w.result ELSE <<>>,
     pre |-> IF u \in Users
             THEN [streak_days |-> session.streak_days[u],
                   last_streak_date |-> session.last_streak_date[u]]
             ELSE NoPre]

SeedDb(prof, tie) ==
    LET lb0 == [u \in Users |->
                  [present |-> prof[u].ranked, total_points |-> prof[u].points,
                   rank |-> NoRank]]
        s0 == [points |-> [u \in Users |-> prof[u].points],
               xp |-> [u \in Users |-> prof[u].xp],
               streak_days |-> [u \in Users |-> prof[u].streak_days],
               last_streak_date |-> [u \in Users |-> prof[u].last_streak_date],
               points_log |-> <<>>,
               badge |-> SeededBadges \cup UNION {prof[u].held : u \in Users},
               user_badge |-> [u \in Users |-> [k \in BadgeKeys |->
                                 IF k \in prof[u].held THEN 1 ELSE 0]],
               leaderboard |-> lb0,
               user_progress |-> [u \in Users |-> [m \in Modules |->
                                    IF m \in prof[u].done THEN <<100>> ELSE <<>>]]]
    IN update_leaderboard(World(s0, s0), tie).s

Init ==
    \E f \in ProfileChoices, tie \in TieOrders :
        /\ session = SeedDb([u \in Users |-> Profiles[f[u]]], tie)
        /\ committed = session
        /\ today = 1
        /\ last = NoCall
        /\ calls = 0
        /\ Sequential

Idle == last.exc = "none"

Bounded == Idle /\ calls < MaxCalls

Apply(w, call) ==
    /\ session' = w.s
    /\ committed' = w.c
    /\ last' = call
    /\ calls' = IF call.op = "rollback" THEN calls ELSE calls + 1
    /\ UNCHANGED <<today, requests, lock>>

AwardPoints(u, action, tie) ==
    /\ Bounded
    /\ \E w \in {award_points(World(session, committed), u, action, <<>>, tie)} :
          Apply(w, Call("award_points", u, action, w))

AwardXpOnly(u, action) ==
    /\ Bounded
    /\ \E w \in {award_xp_only(World(session, committed), u, action)} :
          Apply(w, Call("award_xp_only", u, action, w))

AwardDailyLogin(u, tie) ==
    /\ Bounded
    /\ \E w \in {award_daily_login(World(session, committed), u, today, tie)} :
          Apply(w, Call("award_daily_login", u, "daily_login", w))

\* routes/auth.py login: user.update_streak()
UpdateStreak(u) ==
    /\ Bounded
    /\ \E w \in {update_streak(World(session, committed), u, today)} :
          Apply(w, Call("update_streak", u, "", w))

\* routes/leaderboard.py force_leaderboard_update
UpdateAllRanks(tie) ==
    /\ Bounded
    /\ \E w \in {update_all_ranks(World(session, committed), tie)} :
          Apply(w, Call("update_all_ranks", 0, "", w))

\* the caller's except branch: db.session.rollback()
Rollback ==
    /\ ~Idle
    /\ \E w \in {rollback(World(session, committed))} :
          Apply(w, [NoCall EXCEPT !.op = "rollback"])

NextDay ==
    /\ Idle /\ today < MaxDay
    /\ today' = today + 1
    /\ last' = NoCall
    /\ UNCHANGED <<session, committed, calls, requests, lock>>

Next ==
    \/ \E u \in Users, a \in ActionInputs, tie \in TieOrders : AwardPoints(u, a, tie)
    \/ \E u \in Users, a \in XpActionInputs : AwardXpOnly(u, a)
    \/ \E u \in Users, tie \in TieOrders : AwardDailyLogin(u, tie)
    \/ \E u \in Users : UpdateStreak(u)
    \/ \E tie \in TieOrders : UpdateAllRanks(tie)
    \/ Rollback
    \/ NextDay

Spec == Init /\ [][Next]_vars

(* ------------- badge administration and the read operations ------------ *)
\* an id that no row of user has
MissingUser == NumUsers + 1
UserIds == Users \cup {MissingUser}

\* badge keys passed to award_badge: one of BADGE_RULES, one that is not
BadgeInputs == {"first_quiz", "nonexistent_badge"}

\* the profiles, and a user with ten completed modules
BadgeProfiles ==
    Profiles \o
    << [points |-> 500, xp |-> 1000, streak_days |-> 30, last_streak_date |-> 0,
        held |-> {"first_login", "first_module", "module_explorer", "quiz_master",
                  "streak_30_days"},
        done |-> 2..11, ranked |-> TRUE] >>

BadgeProfileChoices ==
    {f \in [Users -> DOMAIN BadgeProfiles] : \A u, v \in Users : u < v => f[u] < f[v]}

InitBadges ==
    \E f \in BadgeProfileChoices, tie \in TieOrders :
        /\ session = SeedDb([u \in Users |-> BadgeProfiles[f[u]]], tie)
        /\ committed = session
        /\ today = 1
        /\ last = NoCall
        /\ calls = 0
        /\ Sequential

\* routes/badges.py award_badge: BadgeService.award_badge(user, badge_key)
AwardBadge(u, badge_key, tie) ==
    /\ Bounded
    /\ \E w \in {award_badge(World(session, committed), u, badge_key, tie)} :
          Apply(w, Call("award_badge", u, badge_key, w))

\* routes/badges.py get_my_badges: BadgeService.get_user_badge_progress
GetUserBadgeProgress(user_id) ==
    /\ Bounded
    /\ \E w \in {get_user_badge_progress(World(session, committed), user_id)} :
          Apply(w, Call("get_user_badge_progress", user_id, "", w))

GetUserRank(user_id) ==
    /\ Bounded
    /\ \E w \in {get_user_rank(World(session, committed), user_id)} :
          Apply(w, Call("get_user_rank", user_id, "", w))

NextBadges ==
    \/ \E u \in Users, k \in BadgeInputs, tie \in TieOrders : AwardBadge(u, k, tie)
    \/ \E i \in UserIds : GetUserBadgeProgress(i)
    \/ \E i \in UserIds : GetUserRank(i)
    \/ \E u \in Users : UpdateStreak(u)
    \/ Rollback
    \/ NextDay

SpecBadges == InitBadges /\ [][NextBadges]_vars

(* ------------------- the path-completion query ------------------------- *)
\* the rows one (user, module) pair may have: none, one below 100, or up to
\* MaxRows rows at 100
RowChoices ==
    {<<>>, <<50>>} \cup {[i \in 1..n |-> 100] : n \in 1..MaxRows}

\* modules whose rows vary: the module of path 1, one of the eleven modules
\* of path 2 and both modules of path 3
VariedModules == {1, 2, 13, 14}

\* the first user has any rows for the varied modules, the others none
InitPaths ==
    \E rows \in [VariedModules -> RowChoices], tie \in TieOrders :
        /\ session =
              [SeedDb([u \in Users |-> Profiles[1]], tie) EXCEPT
                 !.user_progress[1] =
                     [m \in Modules |-> IF m \in VariedModules THEN rows[m] ELSE <<>>]]
        /\ committed = session
        /\ today = 1
        /\ last = NoCall
        /\ calls = 0
        /\ Sequential

\* BadgeService._get_completed_learning_paths(user) and
\* BadgeService._has_completed_full_path(user)
GetCompletedLearningPaths(u) ==
    /\ Bounded
    /\ \E w \in {[World(session, committed) EXCEPT !.result =
                     [count |-> get_completed_learning_paths(session, u),
                      full |-> has_completed_full_path(session, u)]]} :
          Apply(w, Call("get_completed_learning_paths", u, "", w))

NextPaths ==
    \/ \E u \in Users : GetCompletedLearningPaths(u)
    \/ \E u \in Users : GetUserBadgeProgress(u)

SpecPaths == InitPaths /\ [][NextPaths]_vars

(* --------------------------- request handlers -------------------------- *)
\* what get_jwt_identity() hands to a handler: the string routes/auth.py
\* puts into the tokens it issues, or the mapping {"id": ...} that
\* complete_module subscripts
Identities == {[kind |-> k, id |-> u] : k \in {"str", "dict"}, u \in Users}

\* Quiz.passing_score (default) and the number of questions of a quiz
PASSING_SCORE == 70
TotalQuestions == 2

\* module ids sent to the handlers: the module of path 1, one of path 2 and
\* one of path 3
ModuleInputs == {1, 2, 13}

\* path ids sent to the review handler: an approved path and a pending one
PathInputs == {2, 3}

\* the `action` field of a review request
ReviewInputs == {"approve", "reject", "publish"}

\* the rows the handlers read besides those of the services: user (the ids
\* that have a row), User.role, learning_path and path_followers.  User 1 is
\* the administrator; every user follows the paths 1 and 2; the paths 1 and 2
\* are approved and published (seed.py), the paths 3 and 4 await review; the
\* creator of the paths is an account that is not among Users (id 0).
SeedRoutes(prof, tie) ==
    SeedDb(prof, tie) @@
    [user |-> Users,
     role |-> [u \in Users |-> IF u = 1 THEN "admin" ELSE "learner"],
     learning_path |-> [p \in Paths |->
         IF p <= 2
         THEN [status |-> "approved", is_published |-> TRUE, reviewed_by |-> 0,
               creator_id |-> 0]
         ELSE [status |-> "pending", is_published |-> FALSE, reviewed_by |-> 0,
               creator_id |-> 0]],
     path_followers |-> {<<p, u>> : p \in {1, 2}, u \in Users}]

\* a handler's `except Exception: db.session.rollback(); return ..., 500`
Failed(w) ==
    [rollback(w) EXCEPT !.exc = "none",
                        !.result = [status |-> 500, error |-> w.exc]]

\* a handler's `return jsonify(...), status`
Respond(w, status) == [w EXCEPT !.result = [status |-> status, error |-> "none"]]

\* progress.completion_percent = pct on the first row of the pair, or a new
\* row when the pair has none
SetProgress(w, u, module_id, pct) ==
    [w EXCEPT !.s.user_progress[u][module_id] =
        IF @ = <<>> THEN <<pct>> ELSE [@ EXCEPT ![1] = pct]]

\* routes/progress.py complete_module
complete_module(w, identity, module_id, tie) ==
    IF identity.kind # "dict" \/ identity.id \notin w.s.user
    THEN Failed([w EXCEPT !.exc = IF identity.kind # "dict" THEN "TypeError"
                                  ELSE "AttributeError"])
    ELSE IF <<learning_path_id[module_id], identity.id>> \notin w.s.path_followers
    THEN Respond(w, 400)
    ELSE Bind(commit(SetProgress(w, identity.id, module_id, 100)),
         LAMBDA w1 :
         Bind(award_points(w1, identity.id, "complete_module", <<>>, tie),
         LAMBDA w2 : IF w2.exc # "none" THEN Failed(w2) ELSE Respond(w2, 200)))

\* services/quiz_services.py evaluate_quiz, for the quiz of a module and the
\* number of questions answered correctly
evaluate_quiz(w, u, module_id, correct_answers, tie) ==
    Bind((correct_answers * 100) \div TotalQuestions,
    LAMBDA score_percent :
    Bind(commit(SetProgress(w, u, module_id,
                            IF score_percent >= PASSING_SCORE THEN 100 ELSE 50)),
    LAMBDA w1 :
         IF score_percent >= PASSING_SCORE
         THEN Bind(award_points(w1, u, "complete_quiz", <<"Quiz", module_id>>, tie),
                   LAMBDA w2 : IF w2.exc # "none" THEN w2
                               ELSE [w2 EXCEPT !.result =
                                       [score_percent |-> score_percent, passed |-> TRUE]])
         ELSE [w1 EXCEPT !.result = [score_percent |-> score_percent, passed |-> FALSE]]))

\* routes/user.py delete_account: the delete cascades to the user's
\* leaderboard entry, badges and progress rows
delete_account(w, identity) ==
    IF identity.kind # "str"
    THEN [w EXCEPT !.result = [status |-> 500, error |-> "TypeError"]]
    ELSE IF identity.id \notin w.s.user THEN Respond(w, 404)
    ELSE Respond(commit(
           [w EXCEPT !.s.user = @ \ {identity.id},
                     !.s.leaderboard[identity.id] =
                         [present |-> FALSE, total_points |-> 0, rank |-> NoRank],
                     !.s.user_badge[identity.id] = [k \in BadgeKeys |-> 0],
                     !.s.user_progress[identity.id] = [m \in Modules |-> <<>>],
                     !.s.path_followers = {f \in @ : f[2] # identity.id}]), 200)

\* utils/role_required.py, then routes/learning_paths.py review_learning_path
review_learning_path(w, identity, path_id, action, tie) ==
    IF identity.kind # "str"
    THEN [w EXCEPT !.result = [status |-> 500, error |-> "TypeError"]]
    ELSE IF identity.id \notin w.s.user THEN Respond(w, 404)
    ELSE IF w.s.role[identity.id] # "admin" THEN Respond(w, 403)
    ELSE IF action = "approve"
    THEN Bind(award_points(
                 [w EXCEPT !.s.learning_path[path_id] =
                      [@ EXCEPT !.status = "approved", !.is_published = TRUE,
                                !.reviewed_by = identity.id]],
                 w.s.learning_path[path_id].creator_id,
                 "learning_path_approved", <<>>, tie),
         LAMBDA w1 : IF w1.exc # "none" THEN Failed(w1)
                     ELSE Respond(commit(w1), 200))
    ELSE IF action = "reject"
    THEN Respond(commit([w EXCEPT !.s.learning_path[path_id] =
                            [@ EXCEPT !.status = "rejected", !.is_published = FALSE,
                                      !.reviewed_by = identity.id]]), 200)
    ELSE Respond(w, 400)

InitRoutes ==
    \E f \in ProfileChoices, tie \in TieOrders :
        /\ session = SeedRoutes([u \in Users |-> Profiles[f[u]]], tie)
        /\ committed = session
        /\ today = 1
        /\ last = NoCall
        /\ calls = 0
        /\ Sequential

CompleteModule(identity, module_id, tie) ==
    /\ Bounded
    /\ \E w \in {complete_module(World(session, committed), identity, module_id, tie)} :
          Apply(w, [Call("complete_module", identity.id, "complete_module", w)
                       EXCEPT !.module = module_id])

EvaluateQuiz(u, module_id, correct_answers, tie) ==
    /\ Bounded
    /\ u \in session.user
    /\ \E w \in {evaluate_quiz(World(session, committed), u, module_id,
                               correct_answers, tie)} :
          Apply(w, [Call("evaluate_quiz", u, "complete_quiz", w)
                       EXCEPT !.module = module_id])

DeleteAccount(identity) ==
    /\ Bounded
    /\ \E w \in {delete_account(World(session, committed), identity)} :
          Apply(w, Call("delete_account", identity.id, "", w))

ReviewLearningPath(identity, path_id, action, tie) ==
    /\ Bounded
    /\ \E w \in {review_learning_path(World(session, committed), identity,
                                      path_id, action, tie)} :
          Apply(w, [Call("review_learning_path", identity.id, action, w)
                       EXCEPT !.module = path_id])

NextRoutes ==
    \/ \E i \in Identities, m \in ModuleInputs, tie \in TieOrders :
          CompleteModule(i, m, tie)
    \/ \E u \in Users, m \in ModuleInputs, n \in 0..TotalQuestions, tie \in TieOrders :
          EvaluateQuiz(u, m, n, tie)
    \/ \E i \in Identities : DeleteAccount(i)
    \/ \E i \in Identities, p \in PathInputs, a \in ReviewInputs, tie \in TieOrders :
          ReviewLearningPath(i, p, a, tie)
    \/ \E u \in Users, a \in ActionInputs, tie \in TieOrders :
          u \in session.user /\ AwardPoints(u, a, tie)
    \/ Rollback

SpecRoutes == InitRoutes /\ [][NextRoutes]_vars

(* ------------------------ concurrent requests -------------------------- *)
\* actions of the concurrent award_points calls: two that unlock no badge
\* for a user without progress, and one with a direct-trigger badge
ConcurrentInputs == {"create_resource", "rate_resource", "complete_module"}

\* the User object a handler loads (User.query.get) and hands to award_points
UserObject(c, u) ==
    [points |-> c.points[u], xp |-> c.xp[u], streak_days |-> c.streak_days[u],
     last_streak_date |-> c.last_streak_date[u]]

\* what the session of a request reads: the committed rows, except that the
\* attributes of the user object it holds are those it loaded
View(c, u, user_object) ==
    [c EXCEPT !.points[u] = user_object.points,
              !.xp[u] = user_object.xp,
              !.streak_days[u] = user_object.streak_days,
              !.last_streak_date[u] = user_object.last_streak_date]

\* the unit of work of a session written to the database c: an UPDATE sets
\* the attributes whose value s differs from the loaded value base, an INSERT
\* adds the rows that s has and base has not
Merge(base, s, c) ==
    [points |-> [u \in Users |-> IF s.points[u] # base.points[u]
                                 THEN s.points[u] ELSE c.points[u]],
     xp |-> [u \in Users |-> IF s.xp[u] # base.xp[u] THEN s.xp[u] ELSE c.xp[u]],
     streak_days |-> [u \in Users |-> IF s.streak_days[u] # base.streak_days[u]
                                      THEN s.streak_days[u] ELSE c.streak_days[u]],
     last_streak_date |->
         [u \in Users |-> IF s.last_streak_date[u] # base.last_streak_date[u]
                          THEN s.last_streak_date[u] ELSE c.last_streak_date[u]],
     points_log |-> c.points_log \o
                    SubSeq(s.points_log, Len(base.points_log) + 1, Len(s.points_log)),
     badge |-> c.badge \cup s.badge,
     user_badge |-> [u \in Users |-> [k \in BadgeKeys |->
                       c.user_badge[u][k] + (s.user_badge[u][k] - base.user_badge[u][k])]],
     leaderboard |-> [u \in Users |->
         IF s.leaderboard[u].present /\ ~base.leaderboard[u].present
         THEN s.leaderboard[u]
         ELSE [present |-> c.leaderboard[u].present,
               total_points |->
                   IF s.leaderboard[u].total_points # base.leaderboard[u].total_points
                   THEN s.leaderboard[u].total_points
                   ELSE c.leaderboard[u].total_points,
               rank |-> IF s.leaderboard[u].rank # base.leaderboard[u].rank
                        THEN s.leaderboard[u].rank
                        ELSE c.leaderboard[u].rank]],
     user_progress |-> c.user_progress]

\* a database without a write lock: every session may write at any time
CanWrite_no_lock(holder, r) == TRUE

\* the database of app.py is a SQLite file: a session's first INSERT or
\* UPDATE takes the single write lock of the database, held until the
\* session commits or rolls back
CanWrite(holder, r) == holder \in {0, r}

\* award_points up to the badge check: the user update and the ledger row
\* are pending, and the first query of check_badges flushes them
award_points_begin(w, u, action, metadata, tie) ==
    IF action \notin DOMAIN POINTS_CONFIG THEN raise(w)
    ELSE Bind(check_badges(
                [w EXCEPT !.depth = @ + 1,
                          !.s.points[u] = @ + POINTS_CONFIG[action],
                          !.s.xp[u] = IF XP_get(action) > 0 THEN @ + XP_get(action) ELSE @,
                          !.s.points_log = Append(@, PointsLog(u, POINTS_CONFIG[action],
                                                               action, metadata))],
                u, action, tie),
              LAMBDA r : [r.w EXCEPT !.ret = r.badges])

InFlight(r) == requests[r].pc \in {"loaded", "flushed", "ranked", "raised"}

InitConcurrent ==
    \E f \in ProfileChoices, tie \in TieOrders :
        /\ session = SeedDb([u \in Users |-> Profiles[f[u]]], tie)
        /\ committed = session
        /\ today = 1
        /\ last = NoCall
        /\ calls = 0
        /\ Sequential

\* a handler loads its user (or, after a commit of its own, reloads the
\* expired user on the first attribute access) and calls
\* award_points(user, action)
Load(r, u, action) ==
    /\ requests[r].pc = "none"
    /\ requests' =
          [q \in Requests |->
             IF q = r
             THEN [NoRequest EXCEPT !.pc = "loaded", !.user = u, !.action = action,
                                    !.user_object = UserObject(committed, u),
                                    !.overlapped = \E o \in Requests \ {r} : InFlight(o)]
             ELSE [requests[q] EXCEPT !.overlapped = @ \/ InFlight(q)]]
    /\ UNCHANGED <<session, committed, today, last, calls, lock>>

\* award_points from its first line to the return of check_badges
Flush(r, tie) ==
    /\ requests[r].pc = "loaded"
    /\ CanWrite(lock, r)
    /\ \E base \in {View(committed, requests[r].user, requests[r].user_object)} :
       \E w \in {award_points_begin(World(base, committed), requests[r].user,
                                    requests[r].action, <<>>, tie)} :
          requests' = [requests EXCEPT ![r].base = base, ![r].s = w.s,
                                       ![r].exc = w.exc,
                                       ![r].pc = IF w.exc = "none" THEN "flushed"
                                                 ELSE "raised"]
    /\ lock' = r
    /\ UNCHANGED <<session, committed, today, last, calls>>

\* the flush of a session that does not get the write lock in time fails
\* ("database is locked")
Locked(r) ==
    /\ requests[r].pc = "loaded"
    /\ ~CanWrite(lock, r)
    /\ requests' = [requests EXCEPT ![r].pc = "failed", ![r].exc = "OperationalError"]
    /\ UNCHANGED <<session, committed, today, last, calls, lock>>

\* update_user_rank up to the loop of update_all_ranks: the entry of the
\* user is set, the entry list is read and the ranks are assigned
ReadEntries(r, tie) ==
    /\ requests[r].pc = "flushed"
    /\ \E view \in {Merge(requests[r].base, requests[r].s, committed)} :
       \E w \in {update_user_rank(World(view, committed), requests[r].user, tie)} :
          requests' = [requests EXCEPT
                          ![r].base = View(committed, requests[r].user,
                                           requests[r].user_object),
                          ![r].s = w.s,
                          ![r].pc = "ranked"]
    /\ UNCHANGED <<session, committed, today, last, calls, lock>>

\* db.session.commit() of update_all_ranks
CommitRequest(r) ==
    /\ requests[r].pc = "ranked"
    /\ committed' = Merge(requests[r].base, requests[r].s, committed)
    /\ session' = committed'
    /\ requests' = [requests EXCEPT ![r].pc = "done"]
    /\ lock' = 0
    /\ UNCHANGED <<today, last, calls>>

\* the handler's except branch: db.session.rollback()
RollbackRequest(r) ==
    /\ requests[r].pc = "raised"
    /\ requests' = [requests EXCEPT ![r].pc = "failed"]
    /\ lock' = IF lock = r THEN 0 ELSE lock
    /\ UNCHANGED <<session, committed, today, last, calls>>

NextConcurrent ==
    \/ \E r \in Requests, u \in Users, a \in ConcurrentInputs : Load(r, u, a)
    \/ \E r \in Requests, tie \in TieOrders : Flush(r, tie)
    \/ \E r \in Requests : Locked(r)
    \/ \E r \in Requests, tie \in TieOrders : ReadEntries(r, tie)
    \/ \E r \in Requests : CommitRequest(r)
    \/ \E r \in Requests : RollbackRequest(r)

SpecConcurrent == InitConcurrent /\ [][NextConcurrent]_vars

(* ------------------------------ claims -------------------------------- *)
\* the step is the call `op` issued by user u
IsCall(op) == calls' = calls + 1 /\ last'.op = op

\* the call appended exactly one ledger entry, for u, with delta p
OneEntryAppended(u, p) ==
    /\ Len(session'.points_log) = Len(session.points_log) + 1
    /\ SubSeq(session'.points_log, 1, Len(session.points_log)) = session.points_log
    /\ session'.points_log[Len(session'.points_log)].user_id = u
    /\ session'.points_log[Len(session'.points_log)].points_change = p

\* configured XP of an action, 0 when the action is absent from the XP table
ConfiguredXp(a) == IF a \in DOMAIN XP_CONFIG THEN XP_CONFIG[a] ELSE 0

C2_UnknownActionNoMutation ==
    [][(IsCall("award_points") /\ last'.action \notin DOMAIN POINTS_CONFIG) =>
        /\ last'.exc = "ValueError"
        /\ session'.points = session.points
        /\ session'.xp = session.xp
        /\ session'.points_log = session.points_log
        /\ session'.leaderboard = session.leaderboard
        /\ committed' = committed]_vars

\* a call with an unknown action has raised
C2_Witness ==
    /\ last.op = "award_points" /\ last.action = "nonexistent_action"
    /\ last.exc = "ValueError"

\* the call is an award_points call, issued directly or by award_daily_login
IsAwardCall == IsCall("award_points") \/ IsCall("award_daily_login")

\* C3: after any award_points call completes, the acting user's leaderboard
\* entry exists and its total_points equals that user's points.
C3_EntryMirrorsPoints ==
    (last.op \in {"award_points", "award_daily_login"} /\ last.exc = "none") =>
        /\ session.leaderboard[last.user].present
        /\ session.leaderboard[last.user].total_points = session.points[last.user]
        /\ committed.leaderboard[last.user].present
        /\ committed.leaderboard[last.user].total_points = committed.points[last.user]

\* a completed award for a user who had points, and an entry, before it
C3_Witness ==
    /\ last.op = "award_points" /\ last.exc = "none"
    /\ session.points[last.user] > POINTS_CONFIG[last.action]
    /\ session.leaderboard[last.user].total_points = session.points[last.user]

\* the entries of a leaderboard and their ranks
Entries(lb) == {u \in Users : lb[u].present}

RanksDense(lb) ==
    /\ {lb[u].rank : u \in Entries(lb)} = 1..Cardinality(Entries(lb))
    /\ \A u, v \in Entries(lb) : lb[u].rank = lb[v].rank => u = v

RanksOrdered(lb) ==
    /\ \A u, v \in Entries(lb) :
          lb[u].total_points > lb[v].total_points => lb[u].rank < lb[v].rank
    /\ \A u \in Entries(lb) :
          lb[u].rank = 1 => \A v \in Entries(lb) :
                               lb[v].total_points <= lb[u].total_points

\* C4: after update_all_ranks() the ranks are exactly 1..N without duplicates
\* or gaps, an entry with strictly more total_points has a strictly smaller
\* rank, and rank 1 is held by an entry with the maximum total_points.
C4_RanksDenseAndOrdered ==
    (last.op \in {"update_all_ranks", "award_points", "award_daily_login"}
       /\ last.exc = "none") =>
        /\ RanksDense(session.leaderboard) /\ RanksOrdered(session.leaderboard)
        /\ RanksDense(committed.leaderboard) /\ RanksOrdered(committed.leaderboard)

\* update_all_ranks has run over two entries of different total_points
C4_Witness ==
    /\ last.op = "update_all_ranks"
    /\ \E u, v \in Entries(session.leaderboard) :
          session.leaderboard[u].total_points > session.leaderboard[v].total_points

\* C5 as stated: there is at most one BadgeAward per (user, badge) pair; a
\* call for a user who already holds a badge creates no further BadgeAward
\* for it and does not return it.
C5_AtMostOneAward ==
    /\ \A u \in Users, k \in BadgeKeys : session.user_badge[u][k] <= 1
    /\ \A u \in Users, k \in BadgeKeys : committed.user_badge[u][k] <= 1
    /\ \A i \in 1..Len(last.badges) : session.user_badge[last.user][last.badges[i]] = 1

\* C6 as stated: for a new user who is the only user on the leaderboard,
\* award_points(user, 'complete_module') succeeds and ends with xp = 100,
\* first_module awarded, a ledger row (complete_module, +50), points = 50 +
\* the earn_badge reward, a leaderboard entry equal to the points, rank 1.
C6_NewUserCompleteModule ==
    [][(/\ IsCall("award_points") /\ last'.action = "complete_module"
        /\ session.points[last'.user] = 0 /\ session.xp[last'.user] = 0
        /\ \A k \in BadgeKeys : session.user_badge[last'.user][k] = 0
        /\ Entries(session.leaderboard) = {}) =>
        LET u == last'.user
        IN /\ last'.exc = "none"
           /\ session'.xp[u] = 100
           /\ session'.user_badge[u]["first_module"] = 1
           /\ \E i \in 1..Len(session'.points_log) :
                 /\ session'.points_log[i].user_id = u
                 /\ session'.points_log[i].points_change = 50
                 /\ session'.points_log[i].reason = <<"complete_module">>
           /\ "earn_badge" \in DOMAIN POINTS_CONFIG
           /\ session'.points[u] = 50 + POINTS_CONFIG["earn_badge"]
           /\ session'.leaderboard[u].present
           /\ session'.leaderboard[u].total_points = session'.points[u]
           /\ session'.leaderboard[u].rank = 1]_vars

\* C7 as stated: for a user with streak_days = 6 and last_streak_date =
\* yesterday, award_daily_login makes streak_days = 7, applies the daily_login
\* points and XP, applies the 7-day XP bonus once and adds no ledger row
\* other than the one of award_points.
C7_SeventhDayLogin ==
    [][(/\ IsCall("award_daily_login")
        /\ session.streak_days[last'.user] = 6
        /\ session.last_streak_date[last'.user] = today - 1) =>
        LET u == last'.user
        IN /\ last'.exc = "none"
           /\ session'.streak_days[u] = 7
           /\ session'.points[u] = session.points[u] + POINTS_CONFIG["daily_login"]
           /\ session'.xp[u] = session.xp[u] + ConfiguredXp("daily_login")
                                 + XP_CONFIG["daily_streak_7_days"]
           /\ OneEntryAppended(u, POINTS_CONFIG["daily_login"])]_vars

\* C8 as stated: a streak bonus is applied only on the call on which the
\* streak reaches the threshold, never on a repeated call of the same day:
\* when the previous call was a completed award_daily_login of the user that
\* left the streak at 7 (resp. 30), a further award_daily_login of that user
\* on the same day adds no bonus XP.
C8_BonusOneShot ==
    [][(/\ last.op = "award_daily_login" /\ last.exc = "none"
        /\ IsCall("award_daily_login") /\ last'.user = last.user
        /\ session.last_streak_date[last.user] = today
        /\ session.streak_days[last.user] \in {7, 30}) =>
        session'.xp[last.user] = session.xp[last.user] + ConfiguredXp("daily_login")]_vars

\* C9: a call of update_streak on the date of the last update leaves
\* streak_days and last_streak_date unchanged, also when that update was the
\* user's first ever.
C9_SameDayIdempotent ==
    [][((IsCall("update_streak") \/ IsCall("award_daily_login"))
        /\ session.last_streak_date[last'.user] = today) =>
        /\ session'.streak_days = session.streak_days
        /\ session'.last_streak_date = session.last_streak_date
        /\ committed'.streak_days = committed.streak_days
        /\ committed'.last_streak_date = committed.last_streak_date]_vars

\* a second update_streak on the day of the user's first ever update
C9_Witness ==
    /\ last.op = "update_streak" /\ calls = 2 /\ today = 1
    /\ last.pre.last_streak_date = today /\ last.pre.streak_days = 1
    /\ session.streak_days[last.user] = 1
    /\ session.last_streak_date[last.user] = today

\* C10: update_streak on date d with last_streak_date # d sets
\* last_streak_date = d and streak_days to streak_days + 1 when
\* last_streak_date = d - 1 and to 1 otherwise; streak_days >= 1 whenever
\* last_streak_date is set.
C10_StreakTransition ==
    /\ [][((IsCall("update_streak") \/ IsCall("award_daily_login"))
           /\ session.last_streak_date[last'.user] # today) =>
           LET u == last'.user
           IN /\ session'.last_streak_date[u] = today
              /\ session'.streak_days[u] =
                    IF session.last_streak_date[u] = today - 1
                    THEN session.streak_days[u] + 1
                    ELSE 1
              /\ committed'.last_streak_date[u] = today
              /\ committed'.streak_days[u] = session'.streak_days[u]
              /\ \A v \in Users \ {u} :
                    /\ session'.streak_days[v] = session.streak_days[v]
                    /\ session'.last_streak_date[v] = session.last_streak_date[v]]_vars
    /\ [](\A u \in Users :
            session.last_streak_date[u] # NoDate => session.streak_days[u] >= 1)

\* update_streak after a gap of two days has reset a longer streak to 1
C10_Witness ==
    /\ last.op = "update_streak"
    /\ last.pre.last_streak_date # NoDate
    /\ last.pre.last_streak_date < today - 1
    /\ last.pre.streak_days > 1
    /\ session.streak_days[last.user] = 1
    /\ session.last_streak_date[last.user] = today

\* sum of the deltas of the ledger entries of user u
RECURSIVE LedgerSum(_, _)
LedgerSum(log, u) ==
    IF log = <<>> THEN 0
    ELSE (IF Head(log).user_id = u THEN Head(log).points_change ELSE 0)
         + LedgerSum(Tail(log), u)

\* C11: award_points is all-or-nothing.  A call of award_points that raises
\* commits nothing, an award_daily_login whose award_points raises commits
\* the streak alone, and the caller's rollback discards every pending
\* mutation; every commit moves a user's committed points by the sum of the
\* deltas of the ledger rows it commits for that user, and a committed
\* leaderboard entry shows the committed points of its user.
C11_AllOrNothing ==
    /\ [][(IsCall("award_points") /\ last'.exc # "none") =>
              committed' = committed]_vars
    /\ [][(IsCall("award_daily_login") /\ last'.exc # "none") =>
              committed' = [committed EXCEPT
                              !.streak_days = committed'.streak_days,
                              !.last_streak_date = committed'.last_streak_date]]_vars
    /\ [][last'.op = "rollback" =>
              (session' = committed /\ committed' = committed)]_vars
    /\ [][\A u \in Users :
              committed'.points[u] - committed.points[u] =
                 LedgerSum(committed'.points_log, u)
                    - LedgerSum(committed.points_log, u)]_vars
    /\ [](\A u \in Users :
              committed.leaderboard[u].present =>
                 committed.leaderboard[u].total_points = committed.points[u])

\* a call has raised in the nested badge award, after it had changed the
\* user's points and added its ledger row, and none of it is committed
C11_Witness ==
    /\ last.op = "award_points" /\ last.exc = "ValueError"
    /\ last.attempted # <<>>
    /\ Len(session.points_log) = Len(committed.points_log) + 1
    /\ session.points[last.user] > committed.points[last.user]

\* C12: award_badge with a key that is absent from the badge-rules table
\* raises and performs no mutation: no Badge row, no BadgeAward, no change of
\* points or xp, no ledger entry, no leaderboard change.
C12_UnknownBadgeNoMutation ==
    [][(IsCall("award_badge") /\ last'.action \notin DOMAIN BADGE_RULES) =>
        /\ last'.exc = "ValueError"
        /\ session' = session
        /\ committed' = committed]_vars

\* award_badge with an unknown key has raised
C12_Witness ==
    /\ last.op = "award_badge" /\ last.action = "nonexistent_badge"
    /\ last.exc = "ValueError"

\* C13: award_xp_only(user, action) changes only user.xp, by the XP-table
\* value of the action (no change at all when the action is absent from the
\* XP table); points, the ledger, the badge awards and every leaderboard
\* entry and rank stay as they were.
C13_XpOnly ==
    [][IsCall("award_xp_only") =>
        LET u == last'.user
            a == last'.action
        IN /\ last'.exc = "none"
           /\ session' = [session EXCEPT !.xp[u] = @ + ConfiguredXp(a)]
           /\ committed' = [committed EXCEPT !.xp[u] = @ + ConfiguredXp(a)]
           /\ a \notin DOMAIN XP_CONFIG => session' = session]_vars

\* award_xp_only has granted the XP of an action of the XP table to a user
\* who has points, a ledger row and a leaderboard entry
C13_Witness ==
    /\ last.op = "award_xp_only" /\ last.action \in DOMAIN XP_CONFIG
    /\ session.xp[last.user] >= XP_CONFIG[last.action]
    /\ session.leaderboard[last.user].present
    /\ \E i \in 1..Len(session.points_log) :
          session.points_log[i].user_id = last.user

\* C14: get_user_badge_progress is read-only: for an existing user it leaves
\* users, progress records, badges, badge awards, the ledger and the
\* leaderboard unchanged, and it reports module_explorer and quiz_master as
\* {current, target 5 / 10, completed = current >= target}.
C14_ProgressReadOnly ==
    [][(IsCall("get_user_badge_progress") /\ last'.user \in Users) =>
        LET n == completed_count(session, last'.user)
        IN /\ last'.exc = "none"
           /\ session' = session
           /\ committed' = committed
           /\ last'.result.module_explorer =
                 [current |-> n, target |-> 5, completed |-> n >= 5]
           /\ last'.result.quiz_master =
                 [current |-> n, target |-> 10, completed |-> n >= 10]]_vars

\* the progress of a user with exactly ten completed modules was read: both
\* threshold badges are reported completed
C14_Witness ==
    /\ last.op = "get_user_badge_progress" /\ last.exc = "none"
    /\ last.user \in Users
    /\ last.result.quiz_master = [current |-> 10, target |-> 10, completed |-> TRUE]
    /\ last.result.module_explorer.completed

\* C15 as stated: a read-only operation (get_user_badge_progress,
\* get_user_rank) invoked for a user that does not exist reports a not-found
\* outcome, rather than a default value or some other error.
C15_MissingUserNotFound ==
    (last.op \in {"get_user_badge_progress", "get_user_rank"}
       /\ last.user \notin Users) =>
        last.exc = "NotFound"

\* C16: the points ledger is append-only: every committed ledger entry keeps
\* its user, delta and reason and is never deleted; the committed ledger
\* grows by exactly one entry with every completed reward call and by none
\* otherwise, and the session's ledger is the committed one followed by the
\* pending rows.
C16_LedgerAppendOnly ==
    [][LET old == committed.points_log
           new == committed'.points_log
       IN /\ Len(new) >= Len(old)
          /\ SubSeq(new, 1, Len(old)) = old
          /\ Len(new) = Len(old) + 1 <=> (IsAwardCall /\ last'.exc = "none")
          /\ Len(new) # Len(old) + 1 => new = old
          /\ Len(session'.points_log) >= Len(new)
          /\ SubSeq(session'.points_log, 1, Len(new)) = new]_vars

\* two reward calls have completed, and the row of the first is still the
\* first row of the committed ledger
C16_Witness ==
    /\ Len(committed.points_log) = 2
    /\ last.op \in {"award_points", "award_daily_login"} /\ last.exc = "none"
    /\ committed.points_log[1].points_change > 0

\* the step is a call of an operation of PointsService
IsPointsServiceCall ==
    IsCall("award_points") \/ IsCall("award_xp_only") \/ IsCall("award_daily_login")

\* C17: in every reachable state each user's points is >= 0, and no
\* operation of PointsService (award_points, award_xp_only,
\* award_daily_login) decreases a user's points or xp.
C17_PointsMonotone ==
    /\ [](\A u \in Users : session.points[u] >= 0 /\ committed.points[u] >= 0)
    /\ [][IsPointsServiceCall =>
            \A u \in Users :
               /\ session'.points[u] >= session.points[u]
               /\ session'.xp[u] >= session.xp[u]
               /\ committed'.points[u] >= committed.points[u]
               /\ committed'.xp[u] >= committed.xp[u]]_vars

\* a completed complete_module reward on top of earlier points and xp
C17_Witness ==
    /\ last.op = "award_points" /\ last.action = "complete_module"
    /\ last.exc = "none"
    /\ committed.points[last.user] > POINTS_CONFIG["complete_module"]
    /\ committed.xp[last.user] > XP_CONFIG["complete_module"]

\* C18: there is at most one leaderboard entry per user (the entries are a
\* function of the user), and one for every user for whom an award_points
\* call has completed: the call creates the entry with the user's current
\* points when none exists and otherwise overwrites total_points, leaves the
\* total_points of every other entry alone and recomputes all ranks; entries
\* are created by nothing else and never disappear.
C18_OneEntryPerUser ==
    /\ [][(IsAwardCall /\ last'.exc = "none") =>
            LET u == last'.user
            IN /\ session'.leaderboard[u].present
               /\ session'.leaderboard[u].total_points = session'.points[u]
               /\ \A v \in Users \ {u} :
                     /\ session'.leaderboard[v].present = session.leaderboard[v].present
                     /\ session'.leaderboard[v].total_points =
                           session.leaderboard[v].total_points
               /\ RanksDense(session'.leaderboard)
               /\ committed'.leaderboard = session'.leaderboard]_vars
    /\ [][\A v \in Users :
            /\ committed.leaderboard[v].present => committed'.leaderboard[v].present
            /\ (~committed.leaderboard[v].present /\ committed'.leaderboard[v].present)
                  => (IsAwardCall /\ last'.exc = "none" /\ last'.user = v)]_vars

\* the first completed award_points call of a user who had neither points
\* nor an entry has created the entry, next to the entry of another user
C18_Witness ==
    /\ last.op = "award_points" /\ last.exc = "none" /\ calls = 1
    /\ session.points[last.user] = POINTS_CONFIG[last.action]
    /\ session.leaderboard[last.user].present
    /\ session.leaderboard[last.user].total_points = POINTS_CONFIG[last.action]
    /\ \E v \in Users \ {last.user} : session.leaderboard[v].present

\* C19: every award_points call terminates (it returns or raises ValueError,
\* it never runs into the recursion limit), and badge-triggered rewards nest
\* at most one level: award_badge is called by the top-level award_points
\* only, never by the nested award_points(user, 'earn_badge').
C19_OneLevelNesting ==
    last.op \in {"award_points", "award_daily_login"} =>
        /\ last.exc \in {"none", "ValueError"}
        /\ last.nesting <= 1
        /\ last.attempted # <<>> => last.nesting = 1

\* a call has issued award_badge for subject_master, the rule that has no
\* has_badge guard, for a user who already holds it
C19_Witness ==
    /\ last.op = "award_points" /\ last.nesting = 1
    /\ \E i \in 1..Len(last.attempted) : last.attempted[i] = "subject_master"
    /\ committed.user_badge[last.user]["subject_master"] = 1

\* C20 as stated: for a user who already holds subject_master and has a fully
\* completed learning path, check_badges neither calls award_badge for
\* subject_master nor returns it, and no second BadgeAward for
\* (user, subject_master) is created.
C20_SubjectMasterGated ==
    [][(/\ IsAwardCall
        /\ has_badge(session, last'.user, "subject_master")
        /\ has_completed_full_path(session, last'.user)) =>
        /\ \A i \in 1..Len(last'.attempted) : last'.attempted[i] # "subject_master"
        /\ \A i \in 1..Len(last'.badges) : last'.badges[i] # "subject_master"
        /\ session'.user_badge[last'.user]["subject_master"] = 1]_vars

\* the order in which check_badges evaluates its rules for an action
EvaluationOrder(action) ==
    << IF action \in DOMAIN trigger_map THEN trigger_map[action] ELSE "",
       "module_explorer", "streak_30_days", "path_completer", "quiz_master",
       "subject_master" >>

\* C21 as stated: check_badges returns the keys of the badges for which the
\* invocation itself called award_badge, in evaluation order (the action's
\* direct-trigger badge, then module_explorer, streak_30_days, path_completer,
\* quiz_master, subject_master), and the empty list when none qualifies.
C21_ReturnsAwardedKeys ==
    [][(IsCall("award_points") /\ last'.action \in DOMAIN POINTS_CONFIG) =>
        /\ last'.exc = "none"
        /\ last'.badges = last'.attempted
        /\ \A i, j \in 1..Len(last'.badges) :
              i < j => \E a, b \in 1..6 :
                 /\ a < b
                 /\ last'.badges[i] = EvaluationOrder(last'.action)[a]
                 /\ last'.badges[j] = EvaluationOrder(last'.action)[b]]_vars

\* user u has fully completed path p: the path has a module and every module
\* of the path has a progress record of u at 100
PathCompleted(s, u, p) ==
    LET mods == {m \in Modules : learning_path_id[m] = p}
    IN /\ mods # {}
       /\ \A m \in mods : \E i \in 1..Len(s.user_progress[u][m]) :
              s.user_progress[u][m][i] = 100

\* C22 as stated: the path-completion predicate is true for a user exactly
\* when some learning path with at least one module has, for every module, a
\* progress record of the user at 100; completing some modules only, or
\* holding several records at 100 for one module, never makes it true.
C22_PathCompletionPredicate ==
    last.op = "get_completed_learning_paths" =>
        /\ last.result.full = (\E p \in Paths : PathCompleted(session, last.user, p))
        /\ last.result.count =
              Cardinality({p \in Paths : PathCompleted(session, last.user, p)})

\* C26: for a user created with points = 0 and an empty ledger, in every
\* state reached by calls executed one after the other (each completing, or
\* failing and being rolled back by its caller), the committed points of the
\* user equal the sum of points_change over the user's committed ledger rows.
C26_PointsMatchLedger ==
    \A u \in Users :
        (committed.points[u] = 0 /\ committed.points_log = <<>>) =>
            [](committed.points[u] = LedgerSum(committed.points_log, u))

\* a user created with no points has one committed reward, and a later call
\* has failed and has been rolled back
C26_Witness ==
    /\ last.op = "rollback"
    /\ session = committed
    /\ \E u \in Users :
          /\ committed.points[u] = POINTS_CONFIG["create_resource"]
          /\ \E i \in 1..Len(committed.points_log) :
                /\ committed.points_log[i].user_id = u
                /\ committed.points_log[i].reason = <<"create_resource">>

\* C27 as stated: between requests the committed ranks are a dense
\* permutation 1..N of the existing leaderboard entries, also after a user
\* has deleted the account and after a new user's first point award.
C27_RanksDenseBetweenRequests ==
    Idle => RanksDense(committed.leaderboard)

\* C28 as stated: the complete_module handler is all-or-nothing.  When it
\* answers with a failure because the points/badge/leaderboard chain raised,
\* the progress record, points, xp, ledger, badge awards and leaderboard are
\* as before the request; when it answers with success the progress record
\* is at 100 and the complete_module points have been awarded.
C28_CompleteModuleAllOrNothing ==
    [][IsCall("complete_module") =>
        /\ (last'.result.status = 500 /\ last'.result.error = "ValueError") =>
              committed' = committed /\ session' = session
        /\ last'.result.status = 200 =>
              /\ FullRows(committed', last'.user, {last'.module}) # {}
              /\ committed'.points[last'.user] =
                    committed.points[last'.user] + POINTS_CONFIG["complete_module"]]_vars

\* C29 as stated: progress never regresses.  Once a user has a progress
\* record at 100 for a module no later operation lowers it, a failed retake
\* of the module's quiz included, and the number of the user's records at 100
\* never decreases (as long as the user exists).
C29_ProgressNeverRegresses ==
    [][\A u \in Users : (u \in session.user /\ u \in session'.user) =>
          /\ \A m \in Modules :
                FullRows(committed, u, {m}) # {} => FullRows(committed', u, {m}) # {}
          /\ completed_count(committed', u) >= completed_count(committed, u)]_vars

\* C30 as stated: a review request of an administrator with action 'approve'
\* for a pending path succeeds, leaves the path approved and published and
\* rewards the creator with a ledger row; and in every state a path is
\* published only if it is approved.
C30_ApproveSucceeds ==
    /\ [][(/\ IsCall("review_learning_path") /\ last'.action = "approve"
           /\ last'.result.status \notin {403, 404}
           /\ last'.result.error # "TypeError"
           /\ committed.learning_path[last'.module].status = "pending") =>
           /\ last'.result.status = 200
           /\ committed'.learning_path[last'.module].status = "approved"
           /\ committed'.learning_path[last'.module].is_published
           /\ Len(committed'.points_log) = Len(committed.points_log) + 1]_vars
    /\ [](\A p \in Paths : committed.learning_path[p].is_published =>
                              committed.learning_path[p].status = "approved")

C25_NoLostUpdate ==
    \A r, q \in Requests :
        (/\ r # q
         /\ requests[r].pc = "done" /\ requests[q].pc = "done"
         /\ requests[r].user = requests[q].user
         /\ requests[r].user_object.points <= requests[q].user_object.points) =>
        LET u == requests[r].user
            before == requests[r].user_object.points
        IN /\ committed.points[u] = before + POINTS_CONFIG[requests[r].action]
                                           + POINTS_CONFIG[requests[q].action]
           /\ committed.points[u] = before + LedgerSum(committed.points_log, u)
           /\ committed.leaderboard[u].total_points = committed.points[u]

====
